---- MODULE Spec2Model ----
(***************************************************************************)
(* Model of the ROSMSG deserializer of serde_rosmsg (src/src/de.rs).       *)
(*                                                                         *)
(* A Deserializer is the pair (reader, length) of de.rs:24-27.  The reader *)
(* is a byte source with a read position; length is the remaining byte     *)
(* budget.  Every deserialize_* method is an operator from a Deserializer  *)
(* to a result record that carries the Deserializer after the call.        *)
(*                                                                         *)
(* Integers of TLC are 32 bits wide, so the value of an integer scalar is  *)
(* carried in base 65536: a sequence of 16-bit digits, least significant   *)
(* first, whose most significant digit carries the sign of a signed kind.  *)
(* The digits <<d1, .., dk>> stand for the number d1 + d2*65536 + ...      *)
(***************************************************************************)
EXTENDS Integers, Sequences, FiniteSets, TLC

VARIABLES
    reader,   \* the byte source: [buf |-> bytes, pos |-> bytes already read]
    length,   \* Deserializer.length, the remaining budget (de.rs:26)
    phase,    \* "start": no Deserializer yet, "open": one exists, "done"
    res,      \* the result of the last operation, with its pre-state
    orig,     \* the value a message was encoded from (round trip only)
    created   \* how the Deserializer was created: its expected_length, the
              \* position of its reader then, and whether every deserialize
              \* call on it has succeeded since

vars == <<reader, length, phase, res, orig, created>>

(***************************************************************************)
(* Bounds of the model.                                                    *)
(***************************************************************************)
MaxText == 2        \* longest text of a generated value, in bytes
MaxElems == 2       \* most elements of a generated sequence, entries of a map
MaxRaw == 3         \* longest raw payload enumerated exhaustively
MaxBudget == 4     \* largest expected_length handed to Deserializer::new

(***************************************************************************)
(* Values and shapes.  Every value is a record of the same four fields so  *)
(* that any two values can be compared.                                    *)
(*   t  : the kind        b : the truth value of a bool                    *)
(*   s  : the bytes of a text or byte buffer, the digits of an integer     *)
(*   vs : the elements of a sequence or tuple, the entries of a map        *)
(***************************************************************************)
MkVal(t, b, s, vs) == [t |-> t, b |-> b, s |-> s, vs |-> vs]
NoValue == MkVal("none", FALSE, <<>>, <<>>)
Unit == MkVal("unit", FALSE, <<>>, <<>>)
BoolVal(b) == MkVal("bool", b, <<>>, <<>>)
IntVal(kind, digits) == MkVal(kind, FALSE, digits, <<>>)
TextVal(bs) == MkVal("string", FALSE, bs, <<>>)
BytesVal(bs) == MkVal("bytes", FALSE, bs, <<>>)
SeqVal(vs) == MkVal("seq", FALSE, <<>>, vs)
TupleVal(vs) == MkVal("tuple", FALSE, <<>>, vs)
EntryVal(k, v) == MkVal("entry", FALSE, <<>>, <<k, v>>)
MapVal(es) == MkVal("map", FALSE, <<>>, es)

\* A shape is what the schema requests: a kind and its sub-shapes (the element
\* of a sequence, the fields of a tuple/struct, the key and value of a map).
Sh(k) == [k |-> k, sub |-> <<>>]
ShSeq(e) == [k |-> "seq", sub |-> <<e>>]
ShTuple(fs) == [k |-> "tuple", sub |-> fs]
ShMap(ks, vs) == [k |-> "map", sub |-> <<ks, vs>>]
ShNewtype(e) == [k |-> "newtype", sub |-> <<e>>]
NoShape == Sh("none")

IntKinds == {"u8", "i8", "u16", "i16", "u32", "i32", "u64", "i64"}
SignedKinds == {"i8", "i16", "i32", "i64"}

\* $bytes of impl_nums, and the width of the read_u8 / read_i8 methods.
Width(kind) ==
    CASE kind \in {"u8", "i8"} -> 1
      [] kind \in {"u16", "i16"} -> 2
      [] kind \in {"u32", "i32"} -> 4
      [] kind \in {"u64", "i64"} -> 8

(***************************************************************************)
(* Results.  de is the Deserializer after the call: [reader, length, log,  *)
(* drain].  log is a history of the reservations and reads the call made;  *)
(* drain says what the byte source does with a read it cannot satisfy      *)
(* (io::Read::read_exact leaves the number of bytes consumed unspecified:  *)
(* a Cursor keeps its position, the default implementation drains).        *)
(***************************************************************************)
Ok(v, de) == [ok |-> TRUE, err |-> "", val |-> v, de |-> de]
Err(e, de) == [ok |-> FALSE, err |-> e, val |-> NoValue, de |-> de]

MkDe(rd, len, drain) == [reader |-> rd, length |-> len, log |-> <<>>, drain |-> drain]

\* Deserializer::new
new(rd, expected_length, drain) == MkDe(rd, expected_length, drain)

\* Deserializer::into_inner
into_inner(de) == de.reader

\* Deserializer::is_fully_read
is_fully_read(de) == de.length = 0

\* Deserializer::reserve_bytes
reserve_bytes_nocheck(de, size) ==
    LET after == IF size > de.length THEN 0 ELSE de.length - size
        ev == [e |-> "reserve", n |-> size, before |-> de.length,
               after |-> after, ok |-> TRUE]
    IN  Ok(Unit, [de EXCEPT !.length = after, !.log = Append(@, ev)])

reserve_bytes(de, size) ==
    IF size > de.length
    THEN Err("Overflow",
             [de EXCEPT !.log = Append(@, [e |-> "reserve", n |-> size,
                 before |-> de.length, after |-> de.length, ok |-> FALSE])])
    ELSE Ok(Unit,
            [de EXCEPT !.length = @ - size,
                       !.log = Append(@, [e |-> "reserve", n |-> size,
                 before |-> de.length, after |-> de.length - size, ok |-> TRUE])])

read_exact_unchained(de, n) ==
    LET rd == de.reader
        avail == Len(rd.buf) - rd.pos
    IN  IF n <= avail
        THEN Ok(BytesVal(SubSeq(rd.buf, rd.pos + 1, rd.pos + n)),
                [de EXCEPT !.reader.pos = @ + n,
                           !.log = Append(@, [e |-> "read", n |-> n,
                               before |-> rd.pos, after |-> rd.pos + n, ok |-> TRUE])])
        ELSE Err("Io",
                 [de EXCEPT !.log = Append(@, [e |-> "read", n |-> n,
                                before |-> rd.pos, after |-> rd.pos, ok |-> FALSE])])

\* io::Read::read_exact on the byte source: n bytes, or failure when fewer
\* than n bytes are left.  val.s carries the bytes read.
read_exact(de, n) ==
    LET rd == de.reader
        avail == Len(rd.buf) - rd.pos
    IN  IF n <= avail
        THEN Ok(BytesVal(SubSeq(rd.buf, rd.pos + 1, rd.pos + n)),
                [de EXCEPT !.reader.pos = @ + n,
                           !.log = Append(@, [e |-> "read", n |-> n,
                               before |-> rd.pos, after |-> rd.pos + n, ok |-> TRUE])])
        ELSE LET p == IF de.drain THEN Len(rd.buf) ELSE rd.pos
             IN  Err("EndOfBuffer",
                     [de EXCEPT !.reader.pos = p,
                                !.log = Append(@, [e |-> "read", n |-> n,
                                    before |-> rd.pos, after |-> p, ok |-> FALSE])])

(***************************************************************************)
(* Little-endian conversions (byteorder::LittleEndian).                    *)
(***************************************************************************)
Huge == 32767 * 65536 + 65535

\* read_u32::<LittleEndian> as a length or count.  A value of 2^31 or more
\* does not fit an integer of TLC and is carried as Huge; every budget of the
\* model is below 2^31, so the comparisons of the code come out the same.
U32(bs) ==
    IF bs[4] >= 128 THEN Huge
    ELSE bs[1] + 256 * bs[2] + 65536 * bs[3] + 16777216 * bs[4]

\* The 16-bit digits of a little-endian byte string of even length.
RECURSIVE Digits(_)
Digits(bs) ==
    IF Len(bs) = 0 THEN <<>>
    ELSE <<bs[1] + 256 * bs[2]>> \o Digits(SubSeq(bs, 3, Len(bs)))

DigitsBE(bs) ==
    LET n == Len(bs)
    IN  Digits([i \in 1..n |-> bs[n + 1 - i]])

\* Two's complement: the most significant digit of a signed kind is
\* reinterpreted as negative when its top bit is set.
Signed(ds, top) ==
    LET k == Len(ds)
    IN  [ds EXCEPT ![k] = IF @ >= top \div 2 THEN @ - top ELSE @]

\* read_u8 / read_i8 / read_u16 .. read_i64 ::<LittleEndian>
FromLE_BE(kind, bs) ==
    LET ds == IF Width(kind) = 1 THEN <<bs[1]>> ELSE DigitsBE(bs)
        top == IF Width(kind) = 1 THEN 256 ELSE 65536
    IN  IF kind \in SignedKinds THEN Signed(ds, top) ELSE ds

FromLE(kind, bs) ==
    LET ds == IF Width(kind) = 1 THEN <<bs[1]>> ELSE Digits(bs)
        top == IF Width(kind) = 1 THEN 256 ELSE 65536
    IN  IF kind \in SignedKinds THEN Signed(ds, top) ELSE ds

(***************************************************************************)
(* UTF-8 validation (String::from_utf8) and the text helpers of the map.   *)
(***************************************************************************)
IsCont(b) == b >= 128 /\ b <= 191

RECURSIVE ValidUtf8(_)
ValidUtf8(bs) ==
    IF Len(bs) = 0 THEN TRUE
    ELSE LET b == bs[1]
             n == Len(bs)
             rest(k) == SubSeq(bs, k + 1, n)
         IN  CASE b < 128 -> ValidUtf8(rest(1))
               [] b >= 194 /\ b <= 223 ->
                    n >= 2 /\ IsCont(bs[2]) /\ ValidUtf8(rest(2))
               [] b >= 224 /\ b <= 239 ->
                    /\ n >= 3
                    /\ IsCont(bs[2]) /\ IsCont(bs[3])
                    /\ (b = 224 => bs[2] >= 160)
                    /\ (b = 237 => bs[2] <= 159)
                    /\ ValidUtf8(rest(3))
               [] b >= 240 /\ b <= 244 ->
                    /\ n >= 4
                    /\ IsCont(bs[2]) /\ IsCont(bs[3]) /\ IsCont(bs[4])
                    /\ (b = 240 => bs[2] >= 144)
                    /\ (b = 244 => bs[2] <= 143)
                    /\ ValidUtf8(rest(4))
               [] OTHER -> FALSE

Eq == 61    \* the byte of '='

\* The position of the first '=' of a text, 0 when it has none.
RECURSIVE FirstEqFrom(_, _)
FirstEqFrom(bs, i) ==
    IF i > Len(bs) THEN 0
    ELSE IF bs[i] = Eq THEN i ELSE FirstEqFrom(bs, i + 1)

LastEq(bs) ==
    IF \E i \in 1..Len(bs) : bs[i] = Eq
    THEN CHOOSE i \in 1..Len(bs) : bs[i] = Eq /\ \A j \in (i + 1)..Len(bs) : bs[j] # Eq
    ELSE 0

\* str::splitn(2, '='): the pieces the iterator yields, one or two.
splitn2_last(bs) ==
    LET i == LastEq(bs)
    IN  IF i = 0 THEN <<bs>>
        ELSE <<SubSeq(bs, 1, i - 1), SubSeq(bs, i + 1, Len(bs))>>

splitn2(bs) ==
    LET i == FirstEqFrom(bs, 1)
    IN  IF i = 0 THEN <<bs>>
        ELSE <<SubSeq(bs, 1, i - 1), SubSeq(bs, i + 1, Len(bs))>>

\* The four little-endian bytes of a u32 below 2^31.
U32LE(n) == <<n % 256, (n \div 256) % 256, (n \div 65536) % 256, (n \div 16777216) % 256>>

\* The serializer's encoding of a text: its u32 byte length, then its bytes.
SerializeStr(bs) == U32LE(Len(bs)) \o bs

\* deserialize_map::Access::value_into_bytes
value_into_bytes(val) == SerializeStr(val)

(***************************************************************************)
(* The private methods and the scalar methods of the Deserializer.         *)
(***************************************************************************)
\* Deserializer::pop_length; val.s carries <<the u32>>.
pop_length_unreserved(de) ==
    LET after_read(rd) ==
            IF ~rd.ok THEN rd ELSE Ok(IntVal("u32", <<U32(rd.val.s)>>), rd.de)
    IN  after_read(read_exact(de, 4))

pop_length(de) ==
    LET after_read(rd) ==
            IF ~rd.ok THEN rd ELSE Ok(IntVal("u32", <<U32(rd.val.s)>>), rd.de)
        after_reserve(rs) ==
            IF ~rs.ok THEN rs ELSE after_read(read_exact(rs.de, 4))
    IN  after_reserve(reserve_bytes(de, 4))

\* Deserializer::get_bytes
get_bytes(de) ==
    LET after_read(rd) ==
            IF ~rd.ok THEN rd ELSE Ok(BytesVal(rd.val.s), rd.de)
        after_reserve(rs, len) ==
            IF ~rs.ok THEN rs ELSE after_read(read_exact(rs.de, len))
        after_pop_length(pl) ==
            IF ~pl.ok THEN pl
            ELSE after_reserve(reserve_bytes(pl.de, pl.val.s[1]), pl.val.s[1])
    IN  after_pop_length(pop_length(de))

\* Deserializer::get_string
get_string_unchecked(de) ==
    LET from_utf8(gb) ==
            IF ~gb.ok THEN gb ELSE Ok(TextVal(gb.val.s), gb.de)
    IN  from_utf8(get_bytes(de))

get_string(de) ==
    LET from_utf8(gb) ==
            IF ~gb.ok THEN gb
            ELSE IF ValidUtf8(gb.val.s) THEN Ok(TextVal(gb.val.s), gb.de)
                 ELSE Err("BadStringData", gb.de)
    IN  from_utf8(get_bytes(de))

\* deserialize_bool
deserialize_bool(de) ==
    LET after_read(rd) ==
            IF ~rd.ok THEN rd ELSE Ok(BoolVal(rd.val.s[1] # 0), rd.de)
        after_reserve(rs) ==
            IF ~rs.ok THEN rs ELSE after_read(read_exact(rs.de, 1))
    IN  after_reserve(reserve_bytes(de, 1))

\* deserialize_u8, deserialize_i8 and the methods impl_nums! generates
\* (deserialize_u16 .. deserialize_i64): reserve the width, read it
\* little-endian, hand the value to the visitor.
impl_nums(kind, de) ==
    LET after_read(rd) ==
            IF ~rd.ok THEN rd ELSE Ok(IntVal(kind, FromLE(kind, rd.val.s)), rd.de)
        after_reserve(rs) ==
            IF ~rs.ok THEN rs ELSE after_read(read_exact(rs.de, Width(kind)))
    IN  after_reserve(reserve_bytes(de, Width(kind)))

\* deserialize_str / deserialize_string
deserialize_string(de) == get_string(de)

\* deserialize_bytes / deserialize_byte_buf
deserialize_byte_buf(de) == get_bytes(de)

\* deserialize_unit / deserialize_unit_struct
deserialize_unit_strict(de) ==
    IF is_fully_read(de) THEN Err("Overflow", de) ELSE Ok(Unit, de)

deserialize_unit(de) == Ok(Unit, de)

\* deserialize_char
deserialize_char_u8(de) == impl_nums("u8", de)

deserialize_char(de) == Err("UnsupportedCharType", de)

\* deserialize_option
deserialize_option(de) == Err("UnsupportedEnumType", de)

\* deserialize_enum
deserialize_enum(de) == Err("UnsupportedEnumType", de)

\* deserialize_any / deserialize_identifier / deserialize_ignored_any
deserialize_any(de) == Err("UnsupportedDeserializerMethod", de)
deserialize_identifier(de) == Err("UnsupportedDeserializerMethod", de)
deserialize_ignored_any(de) == Err("UnsupportedDeserializerMethod", de)

(***************************************************************************)
(* Aggregates.  The visitor of the schema drives the access objects: a     *)
(* Vec asks for elements until it is told there are no more, a tuple or    *)
(* struct asks for exactly its arity, a HashMap asks for entries until the *)
(* key is None.  The log records what the access object handed out.        *)
(***************************************************************************)
Handed(de, what, left, some) ==
    [de EXCEPT !.log = Append(@, [e |-> what, n |-> left, before |-> de.length,
                                  after |-> de.length, ok |-> some])]

RECURSIVE Deserialize(_, _)
RECURSIVE next_element_seed(_, _, _, _, _)
RECURSIVE next_key_seed(_, _, _, _)

\* SeqAccess::next_element_seed of deserialize_seq and deserialize_tuple,
\* called by the visitor until it has what it wants.  shapes are the shapes of
\* the elements still wanted, len is Access.len, untilNone says whether the
\* visitor goes on until it is told None (a Vec) or stops by itself (a tuple).
next_element_seed(shapes, de, len, untilNone, acc) ==
    IF len > 0
    THEN LET after_element(r) ==
                 IF ~r.ok THEN r
                 ELSE next_element_seed(IF untilNone THEN shapes ELSE Tail(shapes),
                                        r.de, len - 1, untilNone, Append(acc, r.val))
         IN  after_element(Deserialize(Head(shapes), Handed(de, "element", len, TRUE)))
    ELSE IF untilNone THEN Ok(SeqVal(acc), Handed(de, "element", 0, FALSE))
         ELSE Ok(TupleVal(acc), de)

\* deserialize_seq
deserialize_seq_countbytes(elem, de) ==
    LET after_pop_length(pl) ==
            IF ~pl.ok THEN pl
            ELSE next_element_seed(<<elem>>, pl.de, pl.val.s[1] \div 2, TRUE, <<>>)
    IN  after_pop_length(pop_length(de))

deserialize_seq(elem, de) ==
    LET after_pop_length(pl) ==
            IF ~pl.ok THEN pl
            ELSE next_element_seed(<<elem>>, pl.de, pl.val.s[1], TRUE, <<>>)
    IN  after_pop_length(pop_length(de))

\* deserialize_tuple; deserialize_tuple_struct and deserialize_struct call it
\* with the arity of the schema.
deserialize_tuple_counted(fields, de) == deserialize_seq(Head(fields), de)

deserialize_tuple(fields, de) ==
    next_element_seed(fields, de, Len(fields), FALSE, <<>>)

\* self.key and self.value of the Access object, as pop_item fills them.
Item(key, value) ==
    MkVal("item", FALSE, <<>>,
          <<BytesVal(value_into_bytes(key)), BytesVal(value_into_bytes(value))>>)

\* deserialize_map::Access::pop_item; val.vs carries the key and value buffers.
pop_item_lenient(de) ==
    LET after_split(data, de1) ==
            IF Len(data) < 2 THEN Ok(Item(data[1], <<>>), de1)
            ELSE Ok(Item(data[1], data[2]), de1)
        after_get_string(gs) ==
            IF ~gs.ok THEN gs ELSE after_split(splitn2(gs.val.s), gs.de)
    IN  after_get_string(get_string(de))

pop_item(de) ==
    LET after_split(data, de1) ==
            IF Len(data) < 2 THEN Err("BadMapEntry", de1)
            ELSE Ok(Item(data[1], data[2]), de1)
        after_get_string(gs) ==
            IF ~gs.ok THEN gs ELSE after_split(splitn2(gs.val.s), gs.de)
    IN  after_get_string(get_string(de))

\* A fresh Deserializer over a private buffer (de.rs:417-418, 427-428).
Private_prefix(buf) == new([buf |-> buf, pos |-> 0], 4, FALSE)

Private(buf) == new([buf |-> buf, pos |-> 0], Len(buf), FALSE)

\* The error of a private Deserializer, returned by the access object of the
\* map, whose own Deserializer the private one leaves as it is.
Outer(r, de) == Err(r.err, de)

\* MapAccess::next_value_seed
next_value_seed(vshape, valbuf) == Deserialize(vshape, Private(valbuf))

\* MapAccess::next_key_seed, followed by next_value_seed, as the visitor of a
\* map calls them until the key is None.
next_key_seed(kshape, vshape, de, acc) ==
    IF is_fully_read(de) THEN Ok(MapVal(acc), Handed(de, "entry", 0, FALSE))
    ELSE LET after_value(it, k, v) ==
                 IF ~v.ok THEN Outer(v, it.de)
                 ELSE next_key_seed(kshape, vshape, it.de,
                                    Append(acc, EntryVal(k.val, v.val)))
             after_key(it, k) ==
                 IF ~k.ok THEN Outer(k, it.de)
                 ELSE after_value(it, k, next_value_seed(vshape, it.val.vs[2].s))
             after_pop_item(it) ==
                 IF ~it.ok THEN it
                 ELSE after_key(it, Deserialize(kshape, Private(it.val.vs[1].s)))
         IN  after_pop_item(pop_item(Handed(de, "entry", 1, TRUE)))

\* deserialize_map
deserialize_map(kshape, vshape, de) == next_key_seed(kshape, vshape, de, <<>>)

\* T::deserialize for the shape the schema requests: the deserialize_* method
\* the shape calls.  deserialize_newtype_struct hands the same Deserializer to
\* the inner shape.
Deserialize(shape, de) ==
    CASE shape.k = "bool" -> deserialize_bool(de)
      [] shape.k \in IntKinds -> impl_nums(shape.k, de)
      [] shape.k = "string" -> deserialize_string(de)
      [] shape.k = "bytes" -> deserialize_byte_buf(de)
      [] shape.k = "unit" -> deserialize_unit(de)
      [] shape.k = "char" -> deserialize_char(de)
      [] shape.k = "option" -> deserialize_option(de)
      [] shape.k = "enum" -> deserialize_enum(de)
      [] shape.k = "any" -> deserialize_any(de)
      [] shape.k = "identifier" -> deserialize_identifier(de)
      [] shape.k = "ignored_any" -> deserialize_ignored_any(de)
      [] shape.k = "newtype" -> Deserialize(shape.sub[1], de)
      [] shape.k = "seq" -> deserialize_seq(shape.sub[1], de)
      [] shape.k \in {"tuple", "struct"} -> deserialize_tuple(shape.sub, de)
      [] shape.k = "map" -> deserialize_map(shape.sub[1], shape.sub[2], de)

\* from_reader (from_slice and from_str hand it a Cursor over their bytes)
from_reader_lax(rd, shape, drain) ==
    LET avail == Len(rd.buf) - rd.pos
    IN  IF avail < 4
        THEN Err("Io", MkDe([rd EXCEPT !.pos = IF drain THEN Len(rd.buf) ELSE @],
                            0, drain))
        ELSE Deserialize(shape, new([rd EXCEPT !.pos = @ + 4],
                                    U32(SubSeq(rd.buf, rd.pos + 1, rd.pos + 4)), drain))

from_reader(rd, shape, drain) ==
    LET avail == Len(rd.buf) - rd.pos
    IN  IF avail < 4
        THEN Err("Io", MkDe([rd EXCEPT !.pos = IF drain THEN Len(rd.buf) ELSE @],
                            0, drain))
        ELSE LET after_deserialize(value) ==
                     IF ~value.ok THEN value
                     ELSE IF ~is_fully_read(value.de) THEN Err("Underflow", value.de)
                          ELSE value
                 len == U32(SubSeq(rd.buf, rd.pos + 1, rd.pos + 4))
             IN  after_deserialize(
                     Deserialize(shape, new([rd EXCEPT !.pos = @ + 4], len, drain)))

(***************************************************************************)
(* The encoder, as the wire format specifies it (the serializer is not     *)
(* part of de.rs).  A typed value pairs a value with the shape its schema  *)
(* requests.                                                               *)
(***************************************************************************)
RECURSIVE Concat(_)
Concat(ss) == IF Len(ss) = 0 THEN <<>> ELSE Head(ss) \o Concat(Tail(ss))

Unsign(d, top) == IF d < 0 THEN d + top ELSE d

\* The little-endian bytes of an integer given by its digits.
ToLE(kind, ds) ==
    IF Width(kind) = 1 THEN <<Unsign(ds[1], 256)>>
    ELSE Concat([i \in 1..Len(ds) |->
                    LET d == Unsign(ds[i], 65536) IN <<d % 256, d \div 256>>])

\* One map entry: the Text Value "key=value".
EncodeEntry(e) == SerializeStr(e.vs[1].s \o <<Eq>> \o e.vs[2].s)
EncodeEntries(es) == Concat([i \in 1..Len(es) |-> EncodeEntry(es[i])])

RECURSIVE Encode(_)
Encode(v) ==
    CASE v.t = "bool" -> <<IF v.b THEN 1 ELSE 0>>
      [] v.t \in IntKinds -> ToLE(v.t, v.s)
      [] v.t \in {"string", "bytes"} -> SerializeStr(v.s)
      [] v.t = "seq" -> U32LE(Len(v.vs)) \o Concat([i \in 1..Len(v.vs) |-> Encode(v.vs[i])])
      [] v.t = "tuple" -> Concat([i \in 1..Len(v.vs) |-> Encode(v.vs[i])])
      [] v.t = "map" -> SerializeStr(EncodeEntries(v.vs))
      [] v.t = "unit" -> <<>>

\* Message = u32 total_len + the encoded value; the region of a top-level map
\* is the message's payload.
EncodeMessage(v) ==
    SerializeStr(IF v.t = "map" THEN EncodeEntries(v.vs) ELSE Encode(v))

(***************************************************************************)
(* The inputs of the model.                                                *)
(***************************************************************************)
SeqsUpTo(S, n) == UNION {[1..k -> S] : k \in 0..n}

TV(sh, v) == [sh |-> sh, v |-> v]

\* What the input was made from: a typed value and how its message was altered.
Origin(tv, how) == [sh |-> tv.sh, v |-> tv.v, how |-> how]
NoTV == Origin(TV(NoShape, NoValue), "raw")

\* Integers of every kind; most are the values of the tests de.rs:566-612.
IntSamples ==
    { <<"u8", <<150>>>>, <<"u8", <<0>>>>, <<"i8", <<-100>>>>, <<"i8", <<127>>>>,
      <<"u16", <<41524>>>>, <<"u16", <<1026>>>>, <<"i16", <<-30000>>>>, <<"i16", <<7>>>>,
      <<"u32", <<9029, 52481>>>>, <<"i32", <<27648, -30518>>>>,
      <<"u64", <<43707, 12816, 30292, 43928>>>>,
      <<"i64", <<0, 7548, 37807, -31975>>>> }

ScalarTVs ==
    {TV(Sh("bool"), BoolVal(b)) : b \in BOOLEAN}
    \cup {TV(Sh(x[1]), IntVal(x[1], x[2])) : x \in IntSamples}

TextBytes == {97, Eq}                \* 'a' and '='
Texts == SeqsUpTo(TextBytes, MaxText) \cup {<<195, 169>>}
ShortTexts == SeqsUpTo(TextBytes, 1)
BufBytes == {0, 255}
Bufs == SeqsUpTo(BufBytes, MaxText)

TextTVs == {TV(Sh("string"), TextVal(t)) : t \in Texts}
BufTVs == {TV(Sh("bytes"), BytesVal(t)) : t \in Bufs}

SeqTVs ==
    {TV(ShSeq(Sh("i16")), SeqVal(q)) :
        q \in SeqsUpTo({IntVal("i16", <<7>>), IntVal("i16", <<1025>>), IntVal("i16", <<-2>>)},
                       MaxElems)}
    \cup {TV(ShSeq(Sh("bool")), SeqVal(q)) :
            q \in SeqsUpTo({BoolVal(TRUE), BoolVal(FALSE)}, MaxElems)}
    \cup {TV(ShSeq(Sh("string")), SeqVal(q)) :
            q \in SeqsUpTo({TextVal(t) : t \in ShortTexts}, MaxElems)}

ShPair == ShTuple(<<Sh("u16"), Sh("u16")>>)
ShTestTuple == ShTuple(<<Sh("i16"), Sh("bool"), Sh("u8"), Sh("string")>>)
ShPart == [k |-> "struct", sub |-> <<Sh("string"), ShSeq(Sh("bool"))>>]

TupleTVs ==
    {TV(ShPair, TupleVal(<<IntVal("u16", <<a>>), IntVal("u16", <<b>>)>>)) :
        a \in {1026, 4104}, b \in {1026, 4104}}
    \cup {TV(ShTestTuple, TupleVal(<<IntVal("i16", <<2050>>), BoolVal(TRUE),
                                    IntVal("u8", <<7>>), TextVal(t)>>)) : t \in ShortTexts}
    \cup {TV(ShPart, TupleVal(<<TextVal(t), SeqVal(q)>>)) :
            t \in ShortTexts, q \in SeqsUpTo({BoolVal(TRUE)}, MaxElems)}

\* String maps: entries in the order the encoder writes them, keys unique.
ShStringMap == ShMap(Sh("string"), Sh("string"))
EntryTexts == ShortTexts \cup {<<Eq, 97>>}
Entries == {EntryVal(TextVal(k), TextVal(v)) : k \in ShortTexts, v \in EntryTexts}
UniqueKeys(es) == \A i, j \in 1..Len(es) : i # j => es[i].vs[1] # es[j].vs[1]
MapVals == {MapVal(q) : q \in {es \in SeqsUpTo(Entries, MaxElems) : UniqueKeys(es)}}
MapTVs == {TV(ShStringMap, m) : m \in MapVals}

\* A tuple/struct with a string map among its fields.
ShMapFirst == ShTuple(<<ShStringMap, Sh("u8")>>)
ShMapLast == ShTuple(<<Sh("u8"), ShStringMap>>)
SmallMapVals == {m \in MapVals : Len(m.vs) <= 1}
NestedMapTVs ==
    {TV(ShMapFirst, TupleVal(<<m, IntVal("u8", <<7>>)>>)) : m \in SmallMapVals}
    \cup {TV(ShMapLast, TupleVal(<<IntVal("u8", <<7>>), m>>)) : m \in SmallMapVals}

TypedValues ==
    ScalarTVs \cup TextTVs \cup BufTVs \cup SeqTVs \cup TupleTVs \cup MapTVs
    \cup NestedMapTVs

\* The inputs made from the message m of a value: m itself ("exact"), m cut
\* short after its length prefix ("cut"), m with its declared length one too
\* large ("longer") or one too small ("shorter"), m followed by one more byte
\* ("extra").
Variants(m) ==
    {<<"exact", m>>, <<"extra", m \o <<1>>>>}
    \cup {<<"cut", SubSeq(m, 1, k)>> : k \in 4..(Len(m) - 1)}
    \cup (IF m[1] < 255 THEN {<<"longer", [m EXCEPT ![1] = @ + 1]>>} ELSE {})
    \cup (IF m[1] > 0 THEN {<<"shorter", [m EXCEPT ![1] = @ - 1]>>} ELSE {})

\* Inputs that are not made from a value: short raw payloads under every
\* small declared length, and the inputs of the tests de.rs:758-764, 826-832.
RawBytes == {0, 1, 255}
RawSources ==
    SeqsUpTo(RawBytes, MaxRaw)
    \cup {U32LE(l) \o p : l \in 0..(MaxRaw + 1), p \in SeqsUpTo(RawBytes, MaxRaw)}
    \cup { <<12, 0, 0, 0, 3, 0, 0, 0, 7, 0, 1, 4, 33, 0, 57, 0>>,
           <<12, 0, 0, 0, 5, 0, 0, 0, 7, 0, 1, 4, 33, 0, 57, 0>>,
           <<12, 0, 0, 0, 4, 0, 0, 0, 7, 0, 1, 4, 33, 0, 57, 0>>,
           <<11, 0, 0, 0, 7, 0, 0, 0, 97, 98, 99, 61, 49, 50, 51>> }

\* The shapes a caller requests.
Shapes ==
    {Sh(k) : k \in IntKinds \cup {"bool", "string", "bytes", "unit", "char", "option",
                                  "enum", "any", "identifier", "ignored_any"}}
    \cup {ShSeq(Sh("i16")), ShSeq(Sh("bool")), ShSeq(Sh("string")), ShSeq(Sh("u64")),
          ShPair, ShTestTuple, ShPart, ShStringMap, ShMapFirst, ShMapLast,
          ShMap(Sh("u8"), Sh("string")), ShMap(Sh("string"), Sh("u16")),
          ShMap(Sh("u64"), Sh("string")), ShMap(Sh("string"), Sh("char")),
          ShNewtype(Sh("u16")), ShSeq(ShPair)}

(***************************************************************************)
(* The state machine.  res records the last call: what was called, with    *)
(* which shape, from which reader position and budget, and how it ended.   *)
(***************************************************************************)
Res(op, shape, r, pos0, len0) ==
    [op |-> op, shape |-> shape, ok |-> r.ok, err |-> r.err, val |-> r.val,
     log |-> r.de.log, pos0 |-> pos0, len0 |-> len0]

\* Deserializer { reader, length: expected_length } as new leaves it, seen
\* from outside; before a Deserializer exists, one of budget 0 stands for it.
Created(expected_length, pos, clean) ==
    [length |-> expected_length, pos |-> pos, clean |-> clean]

NoRes == Res("none", NoShape, Ok(NoValue, MkDe([buf |-> <<>>, pos |-> 0], 0, FALSE)), 0, 0)

Init ==
    /\ \/ \E tv \in TypedValues : \E x \in Variants(EncodeMessage(tv.v)) :
            /\ orig = Origin(tv, x[1])
            /\ reader = [buf |-> x[2], pos |-> 0]
       \/ \E m \in RawSources :
            /\ orig = NoTV
            /\ reader = [buf |-> m, pos |-> 0]
    /\ length = 0
    /\ phase = "start"
    /\ res = NoRes
    /\ created = Created(0, 0, TRUE)

\* A call of from_reader (or from_slice) on the whole input.
FromReader(shape, drain) ==
    /\ phase = "start"
    /\ LET r == from_reader(reader, shape, drain)
       IN  /\ reader' = into_inner(r.de)
           /\ length' = r.de.length
           /\ res' = Res("from_reader", shape, r, reader.pos, 0)
           /\ created' =
                 IF Len(reader.buf) - reader.pos < 4
                 THEN Created(0, r.de.reader.pos, TRUE)
                 ELSE Created(U32(SubSeq(reader.buf, reader.pos + 1, reader.pos + 4)),
                              reader.pos + 4, r.ok \/ r.err = "Underflow")
    /\ phase' = "done"
    /\ UNCHANGED orig

Next == \E shape \in Shapes, drain \in BOOLEAN : FromReader(shape, drain)

Spec == Init /\ [][Next]_vars

(***************************************************************************)
(* A session with a Deserializer, as in the examples of de.rs:37-107: the  *)
(* caller wraps a reader with an expected length, deserializes one value   *)
(* after another, and may unwrap the reader again.                         *)
(***************************************************************************)
\* Byte sources of a session: encoded values without the message header,
\* scalars around the sign bit, and the messages themselves.
ScalarSources ==
    {[i \in 1..8 |-> IF i = k THEN x ELSE i] : k \in 1..8, x \in {0, 128, 255}}
    \cup SeqsUpTo({1, 127, 128}, 2)
    \cup {<<187, 170, 16, 50, 84, 118, 152, 171>>, <<0, 108, 202, 136>>}

DeValues ==
    {tv \in TypedValues : Len(Encode(tv.v)) <= MaxBudget + 5}

DeShapes ==
    {Sh(k) : k \in IntKinds \cup {"bool", "string", "bytes", "unit", "char", "option",
                                  "enum", "any", "identifier", "ignored_any"}}
    \cup {ShSeq(Sh("i16")), ShSeq(Sh("string")), ShPair, ShTestTuple, ShStringMap,
          ShMapFirst}

InitDe ==
    /\ \/ \E tv \in DeValues :
            /\ orig = Origin(tv, "payload")
            /\ reader = [buf |-> IF tv.sh.k = "map" THEN EncodeEntries(tv.v.vs)
                                 ELSE Encode(tv.v), pos |-> 0]
       \/ \E m \in ScalarSources \cup SeqsUpTo(RawBytes, MaxRaw) :
            /\ orig = NoTV
            /\ reader = [buf |-> m, pos |-> 0]
    /\ length = 0
    /\ phase = "start"
    /\ res = NoRes
    /\ created = Created(0, 0, TRUE)

\* Deserializer::new(reader, expected_length)
New(expected_length) ==
    /\ phase = "start"
    /\ LET de == new(reader, expected_length, FALSE)
       IN  /\ length' = de.length
           /\ reader' = de.reader
           /\ res' = Res("new", NoShape, Ok(NoValue, de), reader.pos, expected_length)
           /\ created' = Created(de.length, de.reader.pos, TRUE)
    /\ phase' = "open"
    /\ UNCHANGED orig

\* T::deserialize(&mut de) for a value of the requested shape
DeserializeOp(shape, drain) ==
    /\ phase = "open"
    /\ LET r == Deserialize(shape, MkDe(reader, length, drain))
       IN  /\ reader' = r.de.reader
           /\ length' = r.de.length
           /\ res' = Res("deserialize", shape, r, reader.pos, length)
           /\ created' = [created EXCEPT !.clean = @ /\ r.ok]
    /\ UNCHANGED <<phase, orig>>

\* de.into_inner()
IntoInner ==
    /\ phase = "open"
    /\ reader' = into_inner(MkDe(reader, length, FALSE))
    /\ length' = 0
    /\ res' = Res("into_inner", NoShape, Ok(NoValue, MkDe(reader, length, FALSE)),
                  reader.pos, length)
    /\ phase' = "done"
    /\ UNCHANGED <<orig, created>>

NextDe ==
    \/ \E n \in (0..MaxBudget) \cup {Len(reader.buf), Len(reader.buf) + 1} : New(n)
    \/ \E shape \in DeShapes, drain \in BOOLEAN : DeserializeOp(shape, drain)
    \/ IntoInner
    \/ \E shape \in DeShapes, drain \in BOOLEAN : FromReader(shape, drain)

SpecDe == InitDe /\ [][NextDe]_vars

(***************************************************************************)
(* Properties.                                                             *)
(***************************************************************************)
Called(op) == res.op = op
HasHeader == Len(reader.buf) >= 4
\* The declared outer length of the input and the payload bytes it holds.
Declared == U32(SubSeq(reader.buf, 1, 4))
Held == Len(reader.buf) - 4

\* A HashMap built from the entries handed out: a later entry replaces an
\* earlier one of the same key.
MapOf(es) ==
    [k \in {es[i].vs[1] : i \in 1..Len(es)} |->
        es[CHOOSE i \in 1..Len(es) :
              es[i].vs[1] = k /\ \A j \in (i + 1)..Len(es) : es[j].vs[1] # k].vs[2]]

SameValue(a, b) ==
    IF a.t = "map" /\ b.t = "map" THEN MapOf(a.vs) = MapOf(b.vs) ELSE a = b

HasEq(bs) == \E i \in 1..Len(bs) : bs[i] = Eq
KeysWithoutEq(v) == \A i \in 1..Len(v.vs) : ~HasEq(v.vs[i].vs[1].s)
NestedMapShapes == {ShMapFirst, ShMapLast}

\* The input is the message of a value whose shape is the requested one.
DecodesOwnMessage ==
    /\ Called("from_reader")
    /\ orig.how = "exact"
    /\ res.shape = orig.sh

\* C1 as stated: decoding the message the encoder produces for a value of a
\* supported shape returns that value, for string maps with arbitrary text as
\* keys and values too.
C1_RoundTripAnyKey ==
    (DecodesOwnMessage /\ orig.sh \notin NestedMapShapes)
        => (res.ok /\ SameValue(res.val, orig.v))

\* C1 amended: decoding the message the encoder produces for a bool, integer,
\* text, byte buffer, sequence or tuple/struct of these, or for a top-level
\* string map none of whose keys contains '=', returns that value.
C1_RoundTrip ==
    (/\ DecodesOwnMessage
     /\ orig.sh \notin NestedMapShapes
     /\ (orig.sh = ShStringMap => KeysWithoutEq(orig.v)))
        => (res.ok /\ SameValue(res.val, orig.v))

C1_Witness ==
    /\ DecodesOwnMessage
    /\ orig.sh = ShStringMap
    /\ Len(orig.v.vs) = 2
    /\ KeysWithoutEq(orig.v)
    /\ HasEq(orig.v.vs[2].vs[2].s)
    /\ res.ok

\* The budget reserved by the reservations of a log that succeeded.
RECURSIVE Reserved(_)
Reserved(log) ==
    IF Len(log) = 0 THEN 0
    ELSE (IF Head(log).e = "reserve" /\ Head(log).ok THEN Head(log).n ELSE 0)
         + Reserved(Tail(log))

\* The bytes read by the reads of a log that succeeded.
RECURSIVE BytesRead(_)
BytesRead(log) ==
    IF Len(log) = 0 THEN 0
    ELSE (IF Head(log).e = "read" /\ Head(log).ok THEN Head(log).n ELSE 0)
         + BytesRead(Tail(log))

\* The value decoded from the payload under a budget of the declared length.
UnderDeclared == Deserialize(res.shape, new([buf |-> reader.buf, pos |-> 4], Declared, FALSE))

\* C2: from_reader decodes one value under a budget of exactly the declared
\* length L and returns it only if the budget left is 0; when the value decodes
\* and leaves budget, the call fails with Underflow and returns no value.
C2_FullConsumption ==
    (Called("from_reader") /\ HasHeader) =>
        /\ Reserved(res.log) + length = Declared
        /\ res.ok => (/\ UnderDeclared.ok
                      /\ res.val = UnderDeclared.val
                      /\ length = 0)
        /\ (UnderDeclared.ok /\ UnderDeclared.de.length > 0)
              => (~res.ok /\ res.err = "Underflow" /\ res.val = NoValue)

\* de.rs:816-824: outer length 5, a u32 requested.
C2_Witness ==
    /\ Called("from_reader")
    /\ reader.buf = <<5, 0, 0, 0, 69, 35, 1, 205>>
    /\ res.shape = Sh("u32")
    /\ res.err = "Underflow"
    /\ length = 1

\* C3: every read of n bytes comes right after a reservation of n that
\* succeeded; a reservation of n succeeds exactly when n is at most the budget
\* left and then lowers it by n; a reservation that fails leaves the budget,
\* ends the call with Overflow and is followed by no read.
C3_ReserveBeforeRead ==
    Called("deserialize") =>
        /\ \A i \in 1..Len(res.log) :
              LET ev == res.log[i]
              IN  /\ ev.e = "reserve" =>
                        /\ ev.ok <=> ev.n <= ev.before
                        /\ ev.after = IF ev.ok THEN ev.before - ev.n ELSE ev.before
                        /\ ~ev.ok => (i = Len(res.log) /\ ~res.ok /\ res.err = "Overflow")
                  /\ ev.e = "read" =>
                        /\ i > 1
                        /\ res.log[i - 1].e = "reserve"
                        /\ res.log[i - 1].ok
                        /\ res.log[i - 1].n = ev.n
        /\ length = res.len0 - Reserved(res.log)
        /\ res.err = "Overflow" =>
              /\ Len(res.log) > 0
              /\ ~res.log[Len(res.log)].ok
              /\ res.log[Len(res.log)].e = "reserve"
              /\ reader.pos = res.pos0 + BytesRead(res.log)

\* An Overflow while the source still holds the bytes asked for.
C3_Witness ==
    /\ Called("deserialize")
    /\ res.shape = Sh("u32")
    /\ res.err = "Overflow"
    /\ res.len0 = 2
    /\ length = 2
    /\ reader.pos = res.pos0
    /\ Len(reader.buf) - reader.pos >= 4

\* The message the input was cut from decodes as the requested shape.
CutFromDecodable ==
    /\ orig.how = "cut"
    /\ from_reader([buf |-> EncodeMessage(orig.v), pos |-> 0], res.shape, FALSE).ok

\* C4 as stated: when the declared outer length exceeds the payload bytes the
\* source holds, from_reader fails with EndOfBuffer, whatever the shape.
C4_TruncationAnyShape ==
    (Called("from_reader") /\ HasHeader /\ Declared > Held)
        => (~res.ok /\ res.err = "EndOfBuffer")

\* C4 amended: such a call never returns a value, and it fails with
\* EndOfBuffer when the input is a message that decodes as the requested
\* shape, cut short after its length prefix.
C4_Truncation ==
    (Called("from_reader") /\ HasHeader /\ Declared > Held) =>
        /\ ~res.ok
        /\ CutFromDecodable => res.err = "EndOfBuffer"

\* de.rs:796-804: a u32 with its last byte missing.
C4_Witness ==
    /\ Called("from_reader")
    /\ reader.buf = <<4, 0, 0, 0, 69, 35, 1>>
    /\ CutFromDecodable
    /\ res.shape = Sh("u32")
    /\ res.err = "EndOfBuffer"

\* The bytes of the source from where the last call started.
ByteAt(i) == reader.buf[res.pos0 + i]
Avail0 == Len(reader.buf) - res.pos0
Consumed(n) == reader.pos = res.pos0 + n /\ length = res.len0 - n

\* The wire width of a scalar kind, as the format states it.
WireWidth(kind) ==
    CASE kind \in {"bool", "u8", "i8"} -> 1
      [] kind \in {"u16", "i16"} -> 2
      [] kind \in {"u32", "i32"} -> 4
      [] kind \in {"u64", "i64"} -> 8

\* The little-endian value of the w bytes at the start position, two's
\* complement for a signed kind, in digits of base 65536: the bytes b(2k-1)
\* and b(2k) make the digit b(2k-1) + 256*b(2k), the number is the sum of
\* digit(k) * 65536^(k-1), which is the sum of b(i) * 256^(i-1).
LittleEndianValue(kind) ==
    LET w == WireWidth(kind)
        neg == kind \in SignedKinds
    IN  IF w = 1
        THEN <<IF neg /\ ByteAt(1) >= 128 THEN ByteAt(1) - 256 ELSE ByteAt(1)>>
        ELSE [k \in 1..(w \div 2) |->
                LET d == ByteAt(2 * k - 1) + 256 * ByteAt(2 * k)
                IN  IF neg /\ k = w \div 2 /\ d >= 32768 THEN d - 65536 ELSE d]

\* C5: an integer scalar of width w decodes from exactly w bytes of source and
\* budget to their little-endian value, two's complement for signed kinds; a
\* bool decodes from exactly 1 byte and is true iff the byte is nonzero.
C5_ScalarDecode ==
    (Called("deserialize") /\ res.shape.k \in IntKinds \cup {"bool"}) =>
        LET w == WireWidth(res.shape.k)
        IN  /\ res.ok <=> (w <= res.len0 /\ w <= Avail0)
            /\ res.ok => Consumed(w)
            /\ (res.ok /\ res.shape.k \in IntKinds)
                  => res.val = IntVal(res.shape.k, LittleEndianValue(res.shape.k))
            /\ (res.ok /\ res.shape.k = "bool")
                  => res.val = BoolVal(ByteAt(1) # 0)

\* A negative i64 whose bytes are all different.
C5_Witness ==
    /\ Called("deserialize")
    /\ res.shape = Sh("i64")
    /\ res.ok
    /\ res.val.s[4] < 0
    /\ res.val.s[1] # res.val.s[2]

\* The text length and body at the start position.
TextLen == U32(<<ByteAt(1), ByteAt(2), ByteAt(3), ByteAt(4)>>)
TextBody == SubSeq(reader.buf, res.pos0 + 5, res.pos0 + 4 + TextLen)

\* C6: get_string reads a u32 length n for 4 bytes of budget, reserves n from
\* the same budget and reads n bytes; valid UTF-8 is returned as the text with
\* the budget lowered by 4 + n; invalid UTF-8 fails with BadStringData after
\* prefix and body were consumed from source and budget.
C6_TextDecode ==
    (Called("deserialize") /\ res.shape = Sh("string")) =>
        /\ (res.ok \/ res.err = "BadStringData") <=>
              /\ 4 <= res.len0 /\ 4 <= Avail0
              /\ TextLen <= res.len0 - 4 /\ TextLen <= Avail0 - 4
        /\ (res.ok \/ res.err = "BadStringData") =>
              /\ Consumed(4 + TextLen)
              /\ res.ok <=> ValidUtf8(TextBody)
              /\ Len(res.log) = 4
              /\ res.log[1].e = "reserve" /\ res.log[1].n = 4
              /\ res.log[2].e = "read" /\ res.log[2].n = 4
              /\ res.log[3].e = "reserve" /\ res.log[3].n = TextLen
              /\ res.log[3].before = res.len0 - 4
              /\ res.log[4].e = "read" /\ res.log[4].n = TextLen
        /\ res.ok => res.val = TextVal(TextBody)

C6_Witness ==
    /\ Called("deserialize")
    /\ res.shape = Sh("string")
    /\ res.err = "BadStringData"
    /\ TextLen > 0
    /\ reader.pos = res.pos0 + 4 + TextLen

\* The sequences of fixed-width elements among the shapes, and the width.
FixedSeqShapes == {ShSeq(Sh("i16")), ShSeq(Sh("bool")), ShSeq(Sh("u64")), ShSeq(ShPair)}
ElemWidth(shape) ==
    IF shape.sub[1] = ShPair THEN 4 ELSE WireWidth(shape.sub[1].k)

\* The wire count of a top-level sequence, and whether it fits the message.
WireCount == U32(SubSeq(reader.buf, 5, 8))
CountMismatch ==
    /\ Called("from_reader")
    /\ res.shape \in FixedSeqShapes
    /\ Len(reader.buf) >= 8
    /\ Declared >= 4
    /\ (WireCount > Declared \/ 4 + WireCount * ElemWidth(res.shape) # Declared)
CountTooSmall ==
    WireCount <= Declared /\ 4 + WireCount * ElemWidth(res.shape) < Declared

\* C7 as stated: a wire count that does not fit the declared length makes
\* from_reader fail with EndOfBuffer or Overflow.
C7_MismatchOverflowOrEnd ==
    CountMismatch => (~res.ok /\ res.err \in {"EndOfBuffer", "Overflow"})

\* C7 amended: it makes from_reader fail; with Underflow when the count is too
\* small and the source holds the elements it counts, and with EndOfBuffer or
\* Overflow otherwise.
C7_SeqLengthMismatch ==
    CountMismatch =>
        /\ ~res.ok
        /\ res.err \in {"EndOfBuffer", "Overflow", "Underflow"}
        /\ res.err = "Underflow" <=>
              /\ CountTooSmall
              /\ Held >= 4 + WireCount * ElemWidth(res.shape)

\* de.rs:828-829: 3 i16 declared in a region of 4.
C7_Witness ==
    /\ CountMismatch
    /\ reader.buf = <<12, 0, 0, 0, 3, 0, 0, 0, 7, 0, 1, 4, 33, 0, 57, 0>>
    /\ res.shape = ShSeq(Sh("i16"))
    /\ res.err = "Underflow"

\* How often the access object handed out an element (some = TRUE) or said
\* there are no more (some = FALSE).
RECURSIVE HandedOut(_, _, _)
HandedOut(log, what, some) ==
    IF Len(log) = 0 THEN 0
    ELSE (IF Head(log).e = what /\ Head(log).ok = some THEN 1 ELSE 0)
         + HandedOut(Tail(log), what, some)

\* The values vals[i..] are decoded one after the other from position p on,
\* each from where the one before ended, and the last ends at the reader's
\* position.
RECURSIVE BackToBack(_, _, _, _)
BackToBack(shapes, vals, i, p) ==
    IF i > Len(vals) THEN p = reader.pos
    ELSE LET sh == IF Len(shapes) = 1 THEN shapes[1] ELSE shapes[i]
             d == Deserialize(sh, new([buf |-> reader.buf, pos |-> p],
                                      Len(reader.buf) - p, FALSE))
         IN  d.ok /\ d.val = vals[i] /\ BackToBack(shapes, vals, i + 1, d.de.reader.pos)

\* C8: a sequence reads a u32 count c and hands out exactly c elements in wire
\* order and then no more; a tuple or struct reads no count and hands out
\* exactly its arity in declaration order; the bytes consumed are the
\* elements back to back.
C8_AggregateDecode ==
    (Called("deserialize") /\ res.ok) =>
        /\ res.shape.k = "seq" =>
              LET c == U32(<<ByteAt(1), ByteAt(2), ByteAt(3), ByteAt(4)>>)
              IN  /\ res.val.t = "seq"
                  /\ Len(res.val.vs) = c
                  /\ HandedOut(res.log, "element", TRUE) = c
                  /\ HandedOut(res.log, "element", FALSE) = 1
                  /\ res.log[Len(res.log)].e = "element"
                  /\ BackToBack(res.shape.sub, res.val.vs, 1, res.pos0 + 4)
                  /\ length = res.len0 - (reader.pos - res.pos0)
        /\ res.shape.k \in {"tuple", "struct"} =>
              /\ res.val.t = "tuple"
              /\ Len(res.val.vs) = Len(res.shape.sub)
              /\ HandedOut(res.log, "element", TRUE) = Len(res.shape.sub)
              /\ HandedOut(res.log, "element", FALSE) = 0
              /\ BackToBack(res.shape.sub, res.val.vs, 1, res.pos0)
              /\ length = res.len0 - (reader.pos - res.pos0)

\* de.rs:676-683: a tuple struct of an i16, a bool, a u8 and a text.
C8_Witness ==
    /\ Called("deserialize")
    /\ res.shape = ShTestTuple
    /\ res.ok
    /\ res.pos0 = 0
    /\ res.val.vs[4].s # <<>>
    /\ reader.pos = Len(reader.buf)

\* The region of a top-level map as the format describes it: Text Values
\* back to back, each split at its first '='.
Payload == SubSeq(reader.buf, 5, 4 + Declared)
RECURSIVE Framed(_)
Framed(bs) ==
    \/ Len(bs) = 0
    \/ /\ Len(bs) >= 4
       /\ U32(bs) <= Len(bs) - 4
       /\ Framed(SubSeq(bs, 5 + U32(bs), Len(bs)))
RECURSIVE TextsOf(_)
TextsOf(bs) ==
    IF Len(bs) = 0 THEN <<>>
    ELSE <<SubSeq(bs, 5, 4 + U32(bs))>> \o TextsOf(SubSeq(bs, 5 + U32(bs), Len(bs)))
EqAt(t) == CHOOSE i \in 1..Len(t) : t[i] = Eq /\ \A j \in 1..(i - 1) : t[j] # Eq
KeyOf(t) == SubSeq(t, 1, EqAt(t) - 1)
ValueOf(t) == SubSeq(t, EqAt(t) + 1, Len(t))

\* C9: a top-level string map is complete when the budget is 0 (declared
\* length 0 is the empty map); otherwise entry after entry is decoded as a
\* Text Value and split at its first '=' into key and value; an entry without
\* '=' fails the decode with BadMapEntry.
C9_MapDecode ==
    (/\ Called("from_reader") /\ res.shape = ShStringMap
     /\ HasHeader /\ Declared <= Held
     /\ Framed(Payload)
     /\ \A i \in 1..Len(TextsOf(Payload)) : ValidUtf8(TextsOf(Payload)[i])) =>
        LET ts == TextsOf(Payload)
        IN  /\ (\A i \in 1..Len(ts) : HasEq(ts[i])) =>
                  /\ res.ok
                  /\ res.val = MapVal([i \in 1..Len(ts) |->
                                 EntryVal(TextVal(KeyOf(ts[i])), TextVal(ValueOf(ts[i])))])
                  /\ HandedOut(res.log, "entry", TRUE) = Len(ts)
                  /\ HandedOut(res.log, "entry", FALSE) = 1
            /\ (\E i \in 1..Len(ts) : ~HasEq(ts[i])) =>
                  (~res.ok /\ res.err = "BadMapEntry")

\* Two entries, the second with a '=' inside its value.
C9_Witness ==
    /\ Called("from_reader") /\ res.shape = ShStringMap
    /\ res.ok
    /\ Len(res.val.vs) = 2
    /\ HasEq(res.val.vs[2].vs[2].s)
    /\ Len(res.val.vs[2].vs[1].s) = 1

\* C10 as stated: a string map is laid out as its region length and its
\* entries wherever it stands, so a tuple/struct with a map among its fields
\* decodes from its message to the value it was encoded from.
C10_MapAtAnyPosition ==
    (/\ DecodesOwnMessage
     /\ orig.sh \in NestedMapShapes
     /\ \A i \in 1..2 : orig.v.vs[i].t = "map" => KeysWithoutEq(orig.v.vs[i])) =>
        /\ res.ok
        /\ Len(res.val.vs) = 2
        /\ \A i \in 1..2 : SameValue(res.val.vs[i], orig.v.vs[i])

\* The map shapes whose key or value is not text.
NonTextMapShapes ==
    {sh \in Shapes : sh.k = "map" /\ (sh.sub[1].k # "string" \/ sh.sub[2].k # "string")}

\* C11 as stated: when the schema requests a shape other than text for the
\* key or the value of a map, decoding the map produces no key and no value:
\* a call that returns a map returns the empty one.
C11_NonTextMapEntry ==
    (Called("from_reader") /\ res.shape \in NonTextMapShapes /\ res.ok)
        => Len(res.val.vs) = 0

\* The error the format names for a shape it does not support.
UnsupportedError(kind) ==
    CASE kind = "char" -> "UnsupportedCharType"
      [] kind \in {"enum", "option"} -> "UnsupportedEnumType"
      [] kind \in {"any", "identifier", "ignored_any"} -> "UnsupportedDeserializerMethod"
UnsupportedKinds == {"char", "enum", "option", "any", "identifier", "ignored_any"}

\* C12: a request for a char, an enum, an Option, or for 'any', 'identifier'
\* or 'ignored any' decoding fails with the error of its kind, whatever the
\* budget and the source are, without reserving budget, without reading from
\* the source, and leaving budget and source position as they were.
C12_UnsupportedShapes ==
    (Called("deserialize") /\ res.shape.k \in UnsupportedKinds) =>
        /\ ~res.ok
        /\ res.err = UnsupportedError(res.shape.k)
        /\ res.log = <<>>
        /\ Consumed(0)

\* A char requested from a Deserializer that has both budget and bytes left.
C12_Witness ==
    /\ Called("deserialize") /\ res.shape = Sh("char")
    /\ res.err = "UnsupportedCharType"
    /\ res.len0 > 0 /\ Avail0 > 0
    /\ res.pos0 > 0

\* The shapes whose decoding asks for no byte when the budget is 0: a unit,
\* a map (complete at budget 0), and tuples and newtypes of such shapes.
RECURSIVE NeedsNoByte(_)
NeedsNoByte(sh) ==
    CASE sh.k \in {"unit", "map"} -> TRUE
      [] sh.k \in {"tuple", "struct", "newtype"} ->
            \A i \in 1..Len(sh.sub) : NeedsNoByte(sh.sub[i])
      [] OTHER -> FALSE

\* The last call was a deserialize call on an exhausted Deserializer.
CalledExhausted == Called("deserialize") /\ res.len0 = 0

\* C13 as stated: is_fully_read() is true exactly when the budget is 0, and
\* every deserialize call on a Deserializer whose budget is 0 fails, whatever
\* the shape.
C13_ExhaustedAlwaysFails ==
    /\ is_fully_read(MkDe(reader, length, FALSE)) <=> (length = 0)
    /\ CalledExhausted => ~res.ok

\* C13 amended: is_fully_read() is true exactly when the budget is 0; a
\* deserialize call on a Deserializer whose budget is 0 reads nothing and
\* leaves the budget at 0, and it fails (with Overflow, or with the error of
\* an unsupported shape) unless the shape asks for no byte: a unit decodes
\* and a map decodes to the empty map.
C13_ExhaustionIsFinal ==
    /\ is_fully_read(MkDe(reader, length, FALSE)) <=> (length = 0)
    /\ CalledExhausted =>
          /\ Consumed(0)
          /\ BytesRead(res.log) = 0
          /\ res.ok <=> NeedsNoByte(res.shape)
          /\ ~res.ok => \/ res.err = "Overflow"
                        \/ /\ res.shape.k \in UnsupportedKinds
                           /\ res.err = UnsupportedError(res.shape.k)
          /\ res.ok => res.val \in {Unit, MapVal(<<>>)}

\* A u16 requested after the budget was used up, the source still holding
\* bytes (de.rs:97-106).
C13_Witness ==
    /\ CalledExhausted
    /\ res.pos0 > 0 /\ Avail0 >= 2
    /\ res.shape = Sh("u16")
    /\ res.err = "Overflow"

\* The bytes read from the source through the Deserializer since it was
\* created, and the budget it has used up since.
ReadThrough == reader.pos - created.pos
BudgetUsed == created.length - length

\* What holds of the budget whether or not calls have failed: it stays
\* between 0 and the budget B of creation, no deserialize call raises it,
\* and no more bytes are read than budget was used up.
BudgetBounds ==
    /\ 0 <= length /\ length <= created.length
    /\ Called("deserialize") => length <= res.len0
    /\ ReadThrough >= 0 /\ ReadThrough <= BudgetUsed

\* A successful from_reader has read the header and the L bytes it declares,
\* and nothing after them.
FromReaderReadsDeclared ==
    (Called("from_reader") /\ res.ok) =>
        /\ reader.pos = 4 + Declared
        /\ Len(reader.buf) >= reader.pos

\* C14 as stated: the budget stays between 0 and B and never increases, the
\* bytes read are at most B minus the budget, with equality after every
\* operation that succeeds; a successful from_reader has read exactly 4 + L
\* bytes.
C14_EqualityAfterEverySuccess ==
    /\ BudgetBounds
    /\ ((Called("deserialize") \/ Called("from_reader")) /\ res.ok)
          => ReadThrough = BudgetUsed
    /\ FromReaderReadsDeclared

\* C14 amended: the budget stays between 0 and B and never increases, and
\* the bytes read are at most B minus the budget.  An operation that succeeds
\* reads exactly as many bytes as it takes off the budget, so bytes read and
\* budget used are equal as long as no operation on the Deserializer has
\* failed; after a failed operation (budget reserved, bytes not read) they
\* stay apart.  A successful from_reader has read exactly 4 + L bytes.
C14_BudgetConservation ==
    /\ BudgetBounds
    /\ (Called("deserialize") /\ res.ok)
          => reader.pos - res.pos0 = res.len0 - length
    /\ (created.clean /\ ~Called("into_inner")) => ReadThrough = BudgetUsed
    /\ FromReaderReadsDeclared

\* A second value decoded through a Deserializer with budget and bytes to
\* spare.
C14_Witness ==
    /\ Called("deserialize") /\ res.ok /\ created.clean
    /\ res.pos0 > created.pos
    /\ reader.pos > res.pos0
    /\ length > 0
    /\ Len(reader.buf) > reader.pos

\* The places of the log where the access object of a map began an entry
\* whose Text Value was read in full: the entry, the reservation and the read
\* of its length, the reservation and the read of its text.
EntryStarts ==
    {i \in 1..(Len(res.log) - 4) :
        /\ res.log[i].e = "entry" /\ res.log[i].ok
        /\ res.log[i + 4].e = "read" /\ res.log[i + 4].ok}
EntryText(i) == SubSeq(reader.buf, res.log[i + 4].before + 1, res.log[i + 4].after)
EntryLast(i) == i + 4 = Len(res.log)

\* The enclosing Deserializer pays 4 + the length of the text for the entry
\* begun at i, in budget and in source position, and nothing else.
EntryCost(i) ==
    LET n == Len(EntryText(i))
        budget0 == res.log[i].before
        pos0 == res.log[i + 2].before
    IN  /\ res.log[i + 1] = [e |-> "reserve", n |-> 4, before |-> budget0,
                             after |-> budget0 - 4, ok |-> TRUE]
        /\ res.log[i + 2] = [e |-> "read", n |-> 4, before |-> pos0,
                             after |-> pos0 + 4, ok |-> TRUE]
        /\ n = U32(SubSeq(reader.buf, pos0 + 1, pos0 + 4))
        /\ res.log[i + 3] = [e |-> "reserve", n |-> n, before |-> budget0 - 4,
                             after |-> budget0 - (4 + n), ok |-> TRUE]
        /\ res.log[i + 4] = [e |-> "read", n |-> n, before |-> pos0 + 4,
                             after |-> pos0 + 4 + n, ok |-> TRUE]
        /\ IF EntryLast(i)
           THEN length = budget0 - (4 + n) /\ reader.pos = pos0 + 4 + n
           ELSE /\ res.log[i + 5].e = "entry"
                /\ res.log[i + 5].before = budget0 - (4 + n)
                /\ Len(res.log) >= i + 7 => res.log[i + 7].before = pos0 + 4 + n

\* A part of an entry's text decoded by a Deserializer of its own: over the
\* part's Text Value, with exactly its length as the budget.
DecodedAlone(shape, part) ==
    Deserialize(shape, new([buf |-> U32LE(Len(part)) \o part, pos |-> 0],
                           4 + Len(part), FALSE))

\* Key and value of the entry begun at i are what Deserializers of their own
\* make of them; a failure of either ends the decode with that error and
\* leaves the enclosing Deserializer as the entry's text left it.
EntryIsolated(i) ==
    LET t == EntryText(i)
        k == DecodedAlone(res.shape.sub[1], KeyOf(t))
        v == DecodedAlone(res.shape.sub[2], ValueOf(t))
        j == HandedOut(SubSeq(res.log, 1, i), "entry", TRUE)
    IN  (ValidUtf8(t) /\ HasEq(t)) =>
            /\ ~k.ok => (~res.ok /\ res.err = k.err /\ EntryLast(i))
            /\ (k.ok /\ ~v.ok) => (~res.ok /\ res.err = v.err /\ EntryLast(i))
            /\ (k.ok /\ v.ok) => ~EntryLast(i)
            /\ res.ok => res.val.vs[j] = EntryVal(k.val, v.val)

\* C15: decoding one map entry changes the budget and the source position of
\* the enclosing Deserializer by exactly 4 + the byte length of the entry's
\* text and by nothing else; key and value are each decoded from a private
\* buffer by a fresh Deserializer whose budget is 4 + the byte length of the
\* key (value) text, and neither their success nor their failure alters the
\* enclosing budget.
C15_MapEntryIsolation ==
    (Called("from_reader") /\ res.shape.k = "map") =>
        \A i \in EntryStarts : EntryCost(i) /\ EntryIsolated(i)

\* The first of two entries fails in the Deserializer of its key (a u64
\* asked of a buffer of fewer than 8 bytes); the budget of the second entry
\* is still there.
C15_Witness ==
    /\ Called("from_reader") /\ res.shape = ShMap(Sh("u64"), Sh("string"))
    /\ orig.sh = ShStringMap /\ orig.how = "exact" /\ Len(orig.v.vs) = 2
    /\ res.err = "Overflow"
    /\ \E i \in EntryStarts :
          EntryLast(i) /\ HasEq(EntryText(i)) /\ length = Declared - (4 + Len(EntryText(i)))
    /\ length > 0

====
